---- MODULE Spec2Model ----
(***************************************************************************)
(* Leave request workflow and leave balance ledger of the rhr backend      *)
(* (backend/apps/leave).  Each HTTP handler of LeaveRequestViewSet is a    *)
(* sequence of database statements run in autocommit mode (no settings     *)
(* file puts ATOMIC_REQUESTS into DATABASES and the handlers open no       *)
(* transaction), so every statement is one atomic step and the statements  *)
(* of handlers running in different workers interleave.                    *)
(*                                                                         *)
(* Day amounts are counted in half days: one day is 2, a half day is 1.    *)
(***************************************************************************)
EXTENDS Integers, FiniteSets, Sequences, TLC

\* ------------------------------------------------------------------ bounds
\* worker processes/threads serving requests at the same time
NumWorkers == 2
\* Holiday rows stored at the same time
MaxHolidays == 1
\* client calls in a run, when they are served one after the other
MaxCalls == 4
\* client calls in a run, when their handlers overlap
MaxRacingCalls == 3
\* Holiday rows in the table days_requested is read against
MaxHolidayRows == 2
\* TimeEntry rows in the table
MaxEntries == 3
\* sync calls and changes of the holiday API in a run
MaxSyncCalls == 3
\* last date of the requests and holidays days_requested is read for
LastDate == 3

\* ------------------------------------------------------- fixed directory
NULL == "NULL"
Workers == 1..NumWorkers
Tenants == {"t1", "t2"}
Users == {"u_owner", "u_admin", "u_manager", "u_employee", "u_viewer", "u_outsider"}
Notes == {"ok"}

\* TenantMembership rows: role of user u in tenant t, "none" without a row
MembershipRole(u, t) ==
    IF t = "t1" THEN
        CASE u = "u_owner"    -> "owner"
          [] u = "u_admin"    -> "admin"
          [] u = "u_manager"  -> "manager"
          [] u = "u_employee" -> "employee"
          [] u = "u_viewer"   -> "viewer"
          [] OTHER            -> "none"
    ELSE
        CASE u = "u_outsider" -> "manager"
          [] u = "u_manager"  -> "employee"
          [] OTHER            -> "none"

\* Employee rows: [id, tenant, user, status, country of the department];
\* u_owner has no Employee row and u_admin's is not active
Employees ==
    { [id |-> "e_admin",    tenant |-> "t1", user |-> "u_admin",    status |-> "terminated", country |-> ""],
      [id |-> "e_manager",  tenant |-> "t1", user |-> "u_manager",  status |-> "active", country |-> "FR"],
      [id |-> "e_employee", tenant |-> "t1", user |-> "u_employee", status |-> "active", country |-> "US"],
      [id |-> "e_viewer",   tenant |-> "t1", user |-> "u_viewer",   status |-> "active", country |-> ""],
      [id |-> "e_outsider", tenant |-> "t2", user |-> "u_outsider", status |-> "active", country |-> "US"] }

\* LeaveType and TimeEntryType rows: [id, tenant]
LeaveTypes == { [id |-> "annual", tenant |-> "t1"], [id |-> "remote", tenant |-> "t2"] }
EntryTypes == { [id |-> "regular", tenant |-> "t1"], [id |-> "shift", tenant |-> "t2"] }
\* tenant of the row with this primary key
TenantOf(rows, id) == (CHOOSE x \in rows : x.id = id).tenant

EmployeeCountry(eid) == (CHOOSE e \in Employees : e.id = eid).country

\* ------------------------------------------------------------ pure code
\* date.year: dates 1 and 2 are the last days of 2024, later ones are in 2025
Year(d) == IF d <= 2 THEN 2024 ELSE 2025

\* IsTenantMember.has_permission
IsTenantMember(u, t) == MembershipRole(u, t) # "none"

\* LeaveRequestViewSet._has_approval_permission
HasApprovalPermissionNoViewerCheck(u, t) == MembershipRole(u, t) \notin {"none", "employee"}
HasApprovalPermission(u, t) == MembershipRole(u, t) \in {"owner", "admin", "manager"}

\* LeaveRequestViewSet._get_current_employee
GetCurrentEmployee(u, t) ==
    LET es == { e \in Employees : e.tenant = t /\ e.user = u /\ e.status = "active" }
    IN  IF es = {} THEN NULL ELSE (CHOOSE e \in es : TRUE).id

\* LeaveRequest.get_applicable_holidays
GetApplicableHolidaysAnyCountry(req, hols) ==
    { h \in hols : h.tenant = req.tenant /\ h.date >= req.start_date /\ h.date <= req.end_date }
GetApplicableHolidays(req, hols) ==
    LET country == EmployeeCountry(req.employee)
        inRange == { h \in hols : /\ h.tenant = req.tenant
                                  /\ h.date >= req.start_date
                                  /\ h.date <= req.end_date }
    IN  IF country # ""
        THEN { h \in inRange : h.country = country \/ h.country = "" }
        ELSE { h \in inRange : h.country = "" }

\* LeaveRequest.total_calendar_days
TotalCalendarDays(req) ==
    IF req.is_half_day THEN 1 ELSE 2 * ((req.end_date - req.start_date) + 1)

Max(a, b) == IF a >= b THEN a ELSE b

\* LeaveRequest.days_requested
DaysRequested(req, hols) ==
    IF req.is_half_day
    THEN IF \E h \in GetApplicableHolidays(req, hols) : h.date = req.start_date
         THEN 0 ELSE 1
    ELSE Max(0, TotalCalendarDays(req) - 2 * Cardinality(GetApplicableHolidays(req, hols)))

\* status tests of approve/reject and of cancel
ReviewableNotFinal(status) == status \in {"pending", "approved"}
Reviewable(status) == status = "pending"
Cancellable(status) == status \in {"pending", "approved"}

\* cancel's ownership test
OwnsRequestAnyone(req, eid) == TRUE
OwnsRequest(req, eid) == req.employee = eid

\* key of the LeaveBalance row used by _update_leave_balance
BalanceKey(req) ==
    [tenant |-> req.tenant, employee |-> req.employee,
     leave_type |-> req.leave_type, year |-> Year(req.start_date)]

RowKey(row) ==
    [tenant |-> row.tenant, employee |-> row.employee,
     leave_type |-> row.leave_type, year |-> row.year]

\* balance.used_days += days / -= days
AdjustUsed(used, days, add) == IF add THEN used + days ELSE used - days

\* ------------------------------------------------------------------ state
VARIABLES
    requests,   \* LeaveRequest table: id -> row
    balances,   \* LeaveBalance table: set of rows with an id
    holidays,   \* Holiday table: set of rows
    pc,         \* per worker: next statement of the handler it runs
    call,       \* per worker: the HTTP call being served
    obj,        \* per worker: leave_request, the model instance in memory
    bal,        \* per worker: balance, the model instance in memory
    days,       \* per worker: days of _update_leave_balance
    resp,       \* per worker: HTTP status of the response, 0 before it
    ledger,     \* history: per request, the adjustments written for it
    started,    \* history: number of client calls received so far
    memberships,     \* TenantMembership table: set of rows
    http,            \* the HTTP request passing through TenantMiddleware
    request_tenant,  \* request.tenant as the middleware leaves it
    served,          \* the response: status code, tenant whose data it carries
    mpc,             \* per worker: next statement of TenantMembership.save()
    self_row,        \* per worker: self, the membership instance being saved
    last_default,    \* history: per user, the row last saved with is_default
    feed,            \* the external holiday API: per (country, year) up or down, and its entries
    sync_resp,       \* the last holiday sync call and its response
    entries,         \* TimeEntry table: set of rows with an id
    body             \* history: the body of the last create call

\* what the holiday sync adds to the state
svars == <<feed, sync_resp>>
\* what the tenant handlers leave alone, what the leave handlers leave alone
\* what the time entry API and the create calls add to it
xvars == <<entries, body>>
lvars == <<requests, balances, holidays, pc, call, obj, bal, days, resp, ledger, started, svars, xvars>>
tvars == <<memberships, http, request_tenant, served, mpc, self_row, last_default, svars, xvars>>
\* the tenant tables and handlers
tenantSide == <<memberships, http, request_tenant, served, mpc, self_row, last_default>>
vars == <<requests, balances, holidays, pc, call, obj, bal, days, resp, ledger, started,
          memberships, http, request_tenant, served, mpc, self_row, last_default,
          feed, sync_resp, entries, body>>

ReqIds == {"r1", "r2"}
\* primary keys of the rows POST /leave/requests/ adds
NewReqIds == {"r3"}

NoCall == [op |-> "none", user |-> NULL, tenant |-> NULL, id |-> NULL, notes |-> ""]

InitialRequests ==
    [r \in ReqIds |->
        [tenant |-> "t1", employee |-> "e_employee", leave_type |-> "annual",
         start_date |-> 2,
         end_date |-> IF r = "r1" THEN 3 ELSE 2,
         is_half_day |-> (r = "r2"),
         status |-> "pending",
         reviewed_by |-> NULL, reviewed_at |-> NULL, review_notes |-> ""]]

BalanceRow(id, key, entitled, used) ==
    [id |-> id, tenant |-> key.tenant, employee |-> key.employee,
     leave_type |-> key.leave_type, year |-> key.year,
     entitled_days |-> entitled, used_days |-> used]

\* a worker's leave_request and balance before it has loaded them
NoRequest ==
    [tenant |-> NULL, employee |-> NULL, leave_type |-> NULL,
     start_date |-> 0, end_date |-> 0, is_half_day |-> FALSE, status |-> NULL,
     reviewed_by |-> NULL, reviewed_at |-> NULL, review_notes |-> ""]
NoBalance ==
    [id |-> 0, tenant |-> NULL, employee |-> NULL, leave_type |-> NULL,
     year |-> 0, entitled_days |-> 0, used_days |-> 0]

Key2024 == [tenant |-> "t1", employee |-> "e_employee", leave_type |-> "annual", year |-> 2024]
Key2025 == [tenant |-> "t1", employee |-> "e_employee", leave_type |-> "annual", year |-> 2025]

InitialBalanceTables ==
    { {},
      { BalanceRow(1, Key2024, 40, 6), BalanceRow(2, Key2025, 40, 4) } }

\* Holiday rows clients create: company-wide on the first day of both
\* requests, national on the second day of r1, before the range, and
\* national of a country other than the employee's
HolidayRows ==
    { [tenant |-> "t1", date |-> 2, country |-> "",   name |-> "h"],
      [tenant |-> "t1", date |-> 3, country |-> "US", name |-> "h"],
      [tenant |-> "t1", date |-> 1, country |-> "",   name |-> "h"],
      [tenant |-> "t1", date |-> 2, country |-> "FR", name |-> "h"] }

\* Tenant rows: id names the row, pk is the primary key clients send in
\* X-Tenant-ID, name its rank in alphabetical order; t3 is deactivated
TenantRows ==
    { [id |-> "t1", pk |-> 1, slug |-> "acme", name |-> 2, is_active |-> TRUE],
      [id |-> "t2", pk |-> 2, slug |-> "beta", name |-> 1, is_active |-> TRUE],
      [id |-> "t3", pk |-> 3, slug |-> "old",  name |-> 3, is_active |-> FALSE] }
TenantIds == { t.id : t \in TenantRows }
TenantById(id) == CHOOSE t \in TenantRows : t.id = id

\* users whose memberships the tenant handlers read and write
AccountUsers == {"u_manager", "u_outsider"}

MembershipRow(u, t, d) == [user |-> u, tenant |-> t, is_default |-> d]
Pk(m) == <<m.user, m.tenant>>
DefaultsOf(table, u) == { m \in table : m.user = u /\ m.is_default }

\* TenantMembership tables the program can hold: one row per (user, tenant)
\* (unique_together), at most one default per user; u_outsider keeps one
\* default membership; and the table of the MembershipRole directory
MembershipTables ==
    { table \in SUBSET { MembershipRow("u_manager", t, d) : t \in TenantIds, d \in BOOLEAN } :
        /\ \A m, n \in table : Pk(m) = Pk(n) => m = n
        /\ Cardinality(DefaultsOf(table, "u_manager")) <= 1 }
OutsiderRows == { MembershipRow("u_outsider", "t2", TRUE) }
DirectoryTable ==
    { MembershipRow(p[1], p[2], FALSE) :
        p \in { q \in Users \X Tenants : MembershipRole(q[1], q[2]) # "none" } }

NoHttp == [path |-> << >>, header |-> "", host |-> << >>, user |-> NULL, mw_user |-> NULL]
NoServed == [code |-> 0, tenant |-> NULL]
NoRow == MembershipRow(NULL, NULL, FALSE)
NoPk == Pk(NoRow)

\* the holiday API as the handlers other than sync meet it, and no sync made
SyncKeys == {"FR", "US"} \X {2024, 2025}
NoFeed == [k \in SyncKeys |-> [up |-> FALSE, entries |-> {}]]
NoSync ==
    [entry |-> "none", tenant |-> NULL, country |-> "", year |-> 0,
     code |-> 0, created |-> 0, updated |-> 0, failed |-> {}]

\* no time entry stored and no create call made
NoBody == [tenant |-> NULL, employee |-> NULL, type |-> NULL]

\* per request, no adjustment written yet
NoKey == [tenant |-> NULL, employee |-> NULL, leave_type |-> NULL, year |-> 0]
NoLedger == [r \in ReqIds \cup NewReqIds |-> [added |-> 0, reversed |-> 0, net |-> 0, key |-> NoKey]]

\* the tenant side at rest
TenantSideIdle ==
    /\ feed = NoFeed
    /\ sync_resp = NoSync
    /\ entries = {}
    /\ body = NoBody
    /\ http = NoHttp
    /\ request_tenant = NULL
    /\ served = NoServed
    /\ mpc = [w \in Workers |-> "idle"]
    /\ self_row = [w \in Workers |-> NoRow]
    /\ last_default = [u \in AccountUsers |->
            IF DefaultsOf(memberships, u) = {} THEN NoPk
            ELSE Pk(CHOOSE m \in DefaultsOf(memberships, u) : TRUE)]

Init ==
    /\ memberships = DirectoryTable
    /\ TenantSideIdle
    /\ requests = InitialRequests
    /\ balances \in InitialBalanceTables
    /\ holidays = {}
    /\ pc = [w \in Workers |-> "idle"]
    /\ call = [w \in Workers |-> NoCall]
    /\ obj = [w \in Workers |-> NoRequest]
    /\ bal = [w \in Workers |-> NoBalance]
    /\ days = [w \in Workers |-> 0]
    /\ resp = [w \in Workers |-> 0]
    /\ ledger = NoLedger
    /\ started = 0

\* --------------------------------------------------------------- handlers
\* get_object(): the row with this pk in get_queryset() of the request's tenant
InQuerysetAnyTenant(t, r) == r \in DOMAIN requests
InQueryset(t, r) == r \in DOMAIN requests /\ requests[r].tenant = t
GetObject(t, r) == requests[r]

\* outcome of the checks approve and reject make before they change anything
ReviewCheck(u, t, r) ==
    CASE ~IsTenantMember(u, t)              -> 403
      [] ~HasApprovalPermission(u, t)       -> 403
      [] ~InQueryset(t, r)                   -> 404
      [] GetCurrentEmployee(u, t) = NULL    -> 404
      [] ~Reviewable(GetObject(t, r).status) -> 400
      [] OTHER                              -> 200

\* outcome of the checks cancel makes before it changes anything
CancelCheck(u, t, r) ==
    CASE ~IsTenantMember(u, t)              -> 403
      [] ~InQueryset(t, r)                   -> 404
      [] GetCurrentEmployee(u, t) = NULL    -> 404
      [] ~OwnsRequest(GetObject(t, r), GetCurrentEmployee(u, t)) -> 403
      [] ~Cancellable(GetObject(t, r).status) -> 400
      [] OTHER                              -> 200

Respond(w, code) ==
    /\ pc' = [pc EXCEPT ![w] = "done"]
    /\ resp' = [resp EXCEPT ![w] = code]

\* approve / reject up to the assignment of the new field values
Review(w, u, t, r, n, action, newStatus) ==
    /\ pc[w] = "idle"
    /\ started' = started + 1
    /\ call' = [call EXCEPT ![w] = [op |-> action, user |-> u, tenant |-> t, id |-> r, notes |-> n]]
    /\ LET code == ReviewCheck(u, t, r)
       IN  IF code # 200
           THEN /\ Respond(w, code)
                /\ UNCHANGED obj
           ELSE /\ obj' = [obj EXCEPT ![w] =
                        [GetObject(t, r) EXCEPT !.status = newStatus,
                                                !.reviewed_by = GetCurrentEmployee(u, t),
                                                !.reviewed_at = "now",
                                                !.review_notes = n]]
                /\ pc' = [pc EXCEPT ![w] = "save_request"]
                /\ UNCHANGED resp
    /\ UNCHANGED <<requests, balances, holidays, bal, days, ledger>>

Approve(w, u, t, r, n) == Review(w, u, t, r, n, "approve", "approved")

Reject(w, u, t, r, n) == Review(w, u, t, r, n, "reject", "rejected")

\* cancel up to the branch on the loaded status
Cancel(w, u, t, r) ==
    /\ pc[w] = "idle"
    /\ started' = started + 1
    /\ call' = [call EXCEPT ![w] = [op |-> "cancel", user |-> u, tenant |-> t, id |-> r, notes |-> ""]]
    /\ LET code == CancelCheck(u, t, r)
       IN  IF code # 200
           THEN /\ Respond(w, code)
                /\ UNCHANGED obj
           ELSE /\ obj' = [obj EXCEPT ![w] = GetObject(t, r)]
                /\ pc' = [pc EXCEPT ![w] =
                        IF GetObject(t, r).status = "approved"
                        THEN "get_balance" ELSE "save_request"]
                /\ UNCHANGED resp
    /\ UNCHANGED <<requests, balances, holidays, bal, days, ledger>>

\* pending_approval: the listing, or 403
PendingApproval(w, u, t) ==
    /\ pc[w] = "idle"
    /\ started' = started + 1
    /\ call' = [call EXCEPT ![w] = [op |-> "pending_approval", user |-> u, tenant |-> t, id |-> NULL, notes |-> ""]]
    /\ IF ~IsTenantMember(u, t) \/ ~HasApprovalPermission(u, t)
       THEN /\ Respond(w, 403)
            /\ UNCHANGED obj
       ELSE /\ Respond(w, 200)
            /\ UNCHANGED obj
    /\ UNCHANGED <<requests, balances, holidays, bal, days, ledger>>

\* leave_request.save(): UPDATE of every column from the instance in memory
SaveRequest(w) ==
    /\ pc[w] = "save_request"
    /\ requests' = [requests EXCEPT ![call[w].id] =
            IF call[w].op = "cancel" THEN [obj[w] EXCEPT !.status = "cancelled"] ELSE obj[w]]
    /\ obj' = [obj EXCEPT ![w] = requests'[call[w].id]]
    /\ IF call[w].op = "approve"
       THEN /\ pc' = [pc EXCEPT ![w] = "get_balance"]
            /\ UNCHANGED resp
       ELSE Respond(w, 200)
    /\ UNCHANGED <<balances, holidays, call, bal, days, ledger, started>>

\* the primary key the database gives the next LeaveBalance row
NextBalanceId ==
    IF balances = {} THEN 1
    ELSE 1 + (CHOOSE i \in { b.id : b \in balances } : \A b \in balances : b.id <= i)

\* unique_together = ["tenant", "employee", "leave_type", "year"]: an INSERT
\* of a row with this key raises IntegrityError
ViolatesUniqueNever(table, key) == FALSE
ViolatesUnique(table, key) == \E b \in table : RowKey(b) = key

\* LeaveBalance.objects.get_or_create(..., defaults={"entitled_days": 0}):
\* the SELECT; without a row the INSERT follows as a statement of its own
GetOrCreateBalance(w) ==
    /\ pc[w] = "get_balance"
    /\ LET found == { b \in balances : RowKey(b) = BalanceKey(obj[w]) }
       IN  IF found # {}
           THEN /\ bal' = [bal EXCEPT ![w] = CHOOSE b \in found : TRUE]
                /\ pc' = [pc EXCEPT ![w] = "count_days"]
           ELSE /\ pc' = [pc EXCEPT ![w] = "create_balance"]
                /\ UNCHANGED bal
    /\ UNCHANGED <<requests, balances, holidays, call, obj, days, resp, ledger, started>>

\* the INSERT of get_or_create with used_days at its default; on
\* IntegrityError get_or_create reads the row that is there
CreateBalance(w) ==
    /\ pc[w] = "create_balance"
    /\ LET key == BalanceKey(obj[w])
           fresh == BalanceRow(NextBalanceId, key, 0, 0)
       IN  IF ViolatesUnique(balances, key)
           THEN /\ bal' = [bal EXCEPT ![w] = CHOOSE b \in balances : RowKey(b) = key]
                /\ UNCHANGED balances
           ELSE /\ balances' = balances \cup {fresh}
                /\ bal' = [bal EXCEPT ![w] = fresh]
    /\ pc' = [pc EXCEPT ![w] = "count_days"]
    /\ UNCHANGED <<requests, holidays, call, obj, days, resp, ledger, started>>

\* days = Decimal(str(leave_request.days_requested)): queries Holiday now
CountDays(w) ==
    /\ pc[w] = "count_days"
    /\ days' = [days EXCEPT ![w] = DaysRequested(obj[w], holidays)]
    /\ pc' = [pc EXCEPT ![w] = "save_balance"]
    /\ UNCHANGED <<requests, balances, holidays, call, obj, bal, resp, ledger, started>>

\* balance.used_days +=/-= days; balance.save(): UPDATE of the row by pk
SaveBalance(w) ==
    /\ pc[w] = "save_balance"
    /\ LET add == (call[w].op = "approve")
           new == [bal[w] EXCEPT !.used_days = AdjustUsed(bal[w].used_days, days[w], add)]
           r   == call[w].id
       IN  /\ balances' = { b \in balances : b.id # new.id } \cup {new}
           /\ bal' = [bal EXCEPT ![w] = new]
           /\ ledger' = [ledger EXCEPT ![r] =
                   IF add
                   THEN [@ EXCEPT !.added = @ + 1, !.net = @ + days[w], !.key = RowKey(new)]
                   ELSE [@ EXCEPT !.reversed = @ + 1, !.net = @ - days[w]]]
    /\ IF call[w].op = "approve"
       THEN Respond(w, 200)
       ELSE /\ pc' = [pc EXCEPT ![w] = "save_request"]
            /\ UNCHANGED resp
    /\ UNCHANGED <<requests, holidays, call, obj, days, started>>

\* the response has been sent; the worker takes the next request
Return(w) ==
    /\ pc[w] = "done"
    /\ pc' = [pc EXCEPT ![w] = "idle"]
    /\ call' = [call EXCEPT ![w] = NoCall]
    /\ obj' = [obj EXCEPT ![w] = NoRequest]
    /\ bal' = [bal EXCEPT ![w] = NoBalance]
    /\ days' = [days EXCEPT ![w] = 0]
    /\ resp' = [resp EXCEPT ![w] = 0]
    /\ UNCHANGED <<requests, balances, holidays, ledger, started>>

\* the handler raises (database error, worker killed) after it started to
\* write: statements already executed stay committed
Fail(w) ==
    /\ pc[w] \in {"save_request", "get_balance", "create_balance", "count_days", "save_balance"}
    /\ Respond(w, 500)
    /\ UNCHANGED <<requests, balances, holidays, call, obj, bal, days, ledger, started>>

\* HolidayViewSet create / destroy
HolidayCreate(h) ==
    /\ h \notin holidays
    /\ Cardinality(holidays) < MaxHolidays
    /\ holidays' = holidays \cup {h}
    /\ started' = started + 1
    /\ UNCHANGED <<requests, balances, pc, call, obj, bal, days, resp, ledger>>

HolidayDestroy(h) ==
    /\ h \in holidays
    /\ holidays' = holidays \ {h}
    /\ started' = started + 1
    /\ UNCHANGED <<requests, balances, pc, call, obj, bal, days, resp, ledger>>

StartApprove == started < MaxRacingCalls /\ \E w \in Workers, u \in Users, t \in Tenants, r \in ReqIds, n \in Notes : Approve(w, u, t, r, n) /\ UNCHANGED tvars
StartReject == started < MaxRacingCalls /\ \E w \in Workers, u \in Users, t \in Tenants, r \in ReqIds, n \in Notes : Reject(w, u, t, r, n) /\ UNCHANGED tvars
StartCancel == started < MaxRacingCalls /\ \E w \in Workers, u \in Users, t \in Tenants, r \in ReqIds : Cancel(w, u, t, r) /\ UNCHANGED tvars
StartPendingApproval == started < MaxRacingCalls /\ \E w \in Workers, u \in Users, t \in Tenants : PendingApproval(w, u, t) /\ UNCHANGED tvars
StepSaveRequest == \E w \in Workers : SaveRequest(w) /\ UNCHANGED tvars
StepGetOrCreateBalance == \E w \in Workers : GetOrCreateBalance(w) /\ UNCHANGED tvars
StepCreateBalance == \E w \in Workers : CreateBalance(w) /\ UNCHANGED tvars
StepCountDays == \E w \in Workers : CountDays(w) /\ UNCHANGED tvars
StepSaveBalance == \E w \in Workers : SaveBalance(w) /\ UNCHANGED tvars
StepReturn == \E w \in Workers : Return(w) /\ UNCHANGED tvars
StepFail == \E w \in Workers : Fail(w) /\ UNCHANGED tvars
AddHoliday == started < MaxRacingCalls /\ \E h \in HolidayRows : HolidayCreate(h) /\ UNCHANGED tvars
RemoveHoliday == started < MaxRacingCalls /\ \E h \in HolidayRows : HolidayDestroy(h) /\ UNCHANGED tvars

\* ---------------------------------------------- retrieve, update, destroy
\* primary keys clients send: those of the rows and one that no row has
LookupIds == ReqIds \cup {"r0"}
StatusChoices == {"pending", "approved", "rejected", "cancelled"}

\* outcome of the checks of the ModelViewSet detail routes: permission_classes,
\* then get_object() on get_queryset()
DetailCheck(u, t, r) ==
    CASE ~IsTenantMember(u, t) -> 403
      [] ~InQueryset(t, r)     -> 404
      [] OTHER                 -> 200

\* GET /leave/requests/<pk>/
Retrieve(w, u, t, r) ==
    /\ pc[w] = "idle"
    /\ started' = started + 1
    /\ call' = [call EXCEPT ![w] = [op |-> "retrieve", user |-> u, tenant |-> t, id |-> r, notes |-> ""]]
    /\ Respond(w, DetailCheck(u, t, r))
    /\ UNCHANGED <<requests, balances, holidays, obj, bal, days, ledger>>

\* PATCH /leave/requests/<pk>/ with a status: LeaveRequestSerializer declares
\* no read-only model field, so serializer.save() writes it
PartialUpdate(w, u, t, r, st) ==
    /\ pc[w] = "idle"
    /\ started' = started + 1
    /\ call' = [call EXCEPT ![w] = [op |-> "partial_update", user |-> u, tenant |-> t, id |-> r, notes |-> ""]]
    /\ Respond(w, DetailCheck(u, t, r))
    /\ IF DetailCheck(u, t, r) = 200
       THEN requests' = [requests EXCEPT ![r].status = st]
       ELSE UNCHANGED requests
    /\ UNCHANGED <<balances, holidays, obj, bal, days, ledger>>

\* DELETE /leave/requests/<pk>/
Destroy(w, u, t, r) ==
    /\ pc[w] = "idle"
    /\ started' = started + 1
    /\ call' = [call EXCEPT ![w] = [op |-> "destroy", user |-> u, tenant |-> t, id |-> r, notes |-> ""]]
    /\ IF DetailCheck(u, t, r) = 200
       THEN /\ requests' = [x \in DOMAIN requests \ {r} |-> requests[x]]
            /\ Respond(w, 204)
       ELSE /\ Respond(w, DetailCheck(u, t, r))
            /\ UNCHANGED requests
    /\ UNCHANGED <<balances, holidays, obj, bal, days, ledger>>

\* --------------------------------------- creating and editing leave requests
\* bodies of POST /leave/requests/: the serializer reads leave_type, the dates
\* and the half-day flag; tenant and employee are sent too
RequestPayloads ==
    { [tenant |-> t, employee |-> e, leave_type |-> lt,
       start_date |-> sd, end_date |-> ed, is_half_day |-> hd] :
      t \in Tenants, e \in {"e_employee", "e_outsider"}, lt \in { x.id : x \in LeaveTypes },
      sd \in 2..LastDate, ed \in 2..LastDate, hd \in BOOLEAN }

\* LeaveRequestCreateSerializer.validate
ValidDates(sd, ed, hd) == ~(ed < sd) /\ (hd => sd = ed)

\* serializer.save(tenant=request.tenant, ...): the tenant of the row is the
\* keyword argument, the body has no tenant field
StampTenantFromBody(payload, t) == payload.tenant
StampTenant(payload, t) == t

\* LeaveRequestViewSet.create: POST /leave/requests/
CreateRequest(w, u, t, payload) ==
    /\ pc[w] = "idle"
    /\ started' = started + 1
    /\ \E id \in NewReqIds :
          /\ id \notin DOMAIN requests
          /\ call' = [call EXCEPT ![w] = [op |-> "create", user |-> u, tenant |-> t, id |-> id, notes |-> ""]]
          /\ CASE ~IsTenantMember(u, t) ->
                    Respond(w, 403) /\ UNCHANGED requests
               [] IsTenantMember(u, t)
                  /\ (GetCurrentEmployee(u, t) = NULL
                      \/ ~ValidDates(payload.start_date, payload.end_date, payload.is_half_day)) ->
                    Respond(w, 400) /\ UNCHANGED requests
               [] OTHER ->
                    /\ requests' = [x \in DOMAIN requests \cup {id} |->
                          IF x = id
                          THEN [tenant |-> StampTenant(payload, t),
                                employee |-> GetCurrentEmployee(u, t),
                                leave_type |-> payload.leave_type,
                                start_date |-> payload.start_date,
                                end_date |-> payload.end_date,
                                is_half_day |-> payload.is_half_day,
                                status |-> "pending",
                                reviewed_by |-> NULL, reviewed_at |-> NULL, review_notes |-> ""]
                          ELSE requests[x]]
                    /\ Respond(w, 201)
    /\ UNCHANGED <<balances, holidays, obj, bal, days, ledger>>

\* PATCH /leave/requests/<pk>/ with a start_date: validate() compares the
\* dates only when the body has both
PatchStartDate(w, u, t, r, sd) ==
    /\ pc[w] = "idle"
    /\ started' = started + 1
    /\ call' = [call EXCEPT ![w] = [op |-> "partial_update", user |-> u, tenant |-> t, id |-> r, notes |-> ""]]
    /\ Respond(w, DetailCheck(u, t, r))
    /\ IF DetailCheck(u, t, r) = 200
       THEN requests' = [requests EXCEPT ![r].start_date = sd]
       ELSE UNCHANGED requests
    /\ UNCHANGED <<balances, holidays, obj, bal, days, ledger>>

\* ------------------------------------------------------ LeaveBalanceViewSet
\* primary keys of LeaveBalance rows clients send
BalanceIds == 1..3

\* bodies clients send: employee, leave_type, year and entitled_days are
\* writable, used_days is sent too
BalancePayloads ==
    { [employee |-> "e_employee", leave_type |-> "annual", year |-> y,
       entitled_days |-> 40, used_days |-> u] : y \in {2024, 2025}, u \in {0, 8} }

\* get_queryset(): the rows of the request's tenant
BalanceQueryset(t) == { b \in balances : b.tenant = t }

\* permission_classes, then get_object() on get_queryset()
BalanceDetailCheck(u, t, id) ==
    CASE ~IsTenantMember(u, t)                       -> 403
      [] ~\E b \in BalanceQueryset(t) : b.id = id     -> 404
      [] OTHER                                       -> 200

\* the fields of validated_data: used_days is in read_only_fields and is dropped
ValidatedBalance(payload, full) ==
    IF full
    THEN [employee |-> payload.employee, leave_type |-> payload.leave_type,
          year |-> payload.year, entitled_days |-> payload.entitled_days]
    ELSE [entitled_days |-> payload.entitled_days]

\* serializer.update(): setattr of every validated field, then instance.save()
UpdatedBalance(row, data) ==
    [f \in DOMAIN row |-> IF f \in DOMAIN data THEN data[f] ELSE row[f]]

BalanceCall(w, op, u, t) ==
    /\ pc[w] = "idle"
    /\ started' = started + 1
    /\ call' = [call EXCEPT ![w] = [op |-> op, user |-> u, tenant |-> t, id |-> NULL, notes |-> ""]]
    /\ UNCHANGED <<requests, holidays, obj, bal, days, ledger>>

\* POST /leave/balances/: perform_create saves with tenant=request.tenant;
\* used_days takes the model default
BalanceCreate(w, u, t, payload) ==
    /\ BalanceCall(w, "balance_create", u, t)
    /\ LET data == ValidatedBalance(payload, TRUE)
           key == [tenant |-> t, employee |-> data.employee,
                   leave_type |-> data.leave_type, year |-> data.year]
       IN  CASE ~IsTenantMember(u, t) ->
                  Respond(w, 403) /\ UNCHANGED balances
             [] IsTenantMember(u, t) /\ ViolatesUnique(balances, key) ->
                  Respond(w, 500) /\ UNCHANGED balances
             [] OTHER ->
                  /\ balances' = balances \cup { BalanceRow(NextBalanceId, key, data.entitled_days, 0) }
                  /\ Respond(w, 201)

\* PUT (full) and PATCH of /leave/balances/<pk>/
BalanceWrite(w, op, u, t, id, payload, full) ==
    /\ BalanceCall(w, op, u, t)
    /\ IF BalanceDetailCheck(u, t, id) # 200
       THEN Respond(w, BalanceDetailCheck(u, t, id)) /\ UNCHANGED balances
       ELSE LET row == CHOOSE b \in BalanceQueryset(t) : b.id = id
                new == UpdatedBalance(row, ValidatedBalance(payload, full))
            IN  IF ViolatesUnique(balances \ {row}, RowKey(new))
                THEN Respond(w, 500) /\ UNCHANGED balances
                ELSE /\ balances' = (balances \ {row}) \cup {new}
                     /\ Respond(w, 200)

BalanceUpdate(w, u, t, id, payload) == BalanceWrite(w, "balance_update", u, t, id, payload, TRUE)
BalancePartialUpdate(w, u, t, id, payload) == BalanceWrite(w, "balance_partial_update", u, t, id, payload, FALSE)

\* DELETE /leave/balances/<pk>/
BalanceDestroy(w, u, t, id) ==
    /\ BalanceCall(w, "balance_destroy", u, t)
    /\ IF BalanceDetailCheck(u, t, id) # 200
       THEN Respond(w, BalanceDetailCheck(u, t, id)) /\ UNCHANGED balances
       ELSE /\ balances' = { b \in balances : b.id # id }
            /\ Respond(w, 204)

\* workers serve requests concurrently, statement by statement
Next ==
    \/ StartApprove
    \/ StartReject
    \/ StartCancel
    \/ StartPendingApproval
    \/ StepSaveRequest
    \/ StepGetOrCreateBalance
    \/ StepCreateBalance
    \/ StepCountDays
    \/ StepSaveBalance
    \/ StepReturn
    \/ StepFail
    \/ AddHoliday
    \/ RemoveHoliday

Spec == Init /\ [][Next]_vars

\* one request at a time, each handler running to its response
Serial == started < MaxCalls /\ \A w \in Workers : pc[w] = "idle"

SeqApprove == Serial /\ \E w \in Workers, u \in Users, t \in Tenants, r \in ReqIds, n \in Notes : Approve(w, u, t, r, n) /\ UNCHANGED tvars
SeqReject == Serial /\ \E w \in Workers, u \in Users, t \in Tenants, r \in ReqIds, n \in Notes : Reject(w, u, t, r, n) /\ UNCHANGED tvars
SeqCancel == Serial /\ \E w \in Workers, u \in Users, t \in Tenants, r \in ReqIds : Cancel(w, u, t, r) /\ UNCHANGED tvars
SeqPendingApproval == Serial /\ \E w \in Workers, u \in Users, t \in Tenants : PendingApproval(w, u, t) /\ UNCHANGED tvars
SeqAddHoliday == Serial /\ \E h \in HolidayRows : HolidayCreate(h) /\ UNCHANGED tvars
SeqRemoveHoliday == Serial /\ \E h \in HolidayRows : HolidayDestroy(h) /\ UNCHANGED tvars

NextSeq ==
    \/ SeqApprove
    \/ SeqReject
    \/ SeqCancel
    \/ SeqPendingApproval
    \/ StepSaveRequest
    \/ StepGetOrCreateBalance
    \/ StepCreateBalance
    \/ StepCountDays
    \/ StepSaveBalance
    \/ StepReturn
    \/ SeqAddHoliday
    \/ SeqRemoveHoliday

SpecSeq == Init /\ [][NextSeq]_vars

\* the LeaveBalance API next to approve and cancel, one call at a time
SeqBalanceCreate == Serial /\ \E w \in Workers, u \in Users, t \in Tenants, p \in BalancePayloads : BalanceCreate(w, u, t, p) /\ UNCHANGED tvars
SeqBalanceUpdate == Serial /\ \E w \in Workers, u \in Users, t \in Tenants, id \in BalanceIds, p \in BalancePayloads : BalanceUpdate(w, u, t, id, p) /\ UNCHANGED tvars
SeqBalancePartialUpdate == Serial /\ \E w \in Workers, u \in Users, t \in Tenants, id \in BalanceIds, p \in BalancePayloads : BalancePartialUpdate(w, u, t, id, p) /\ UNCHANGED tvars
SeqBalanceDestroy == Serial /\ \E w \in Workers, u \in Users, t \in Tenants, id \in BalanceIds : BalanceDestroy(w, u, t, id) /\ UNCHANGED tvars

NextBalanceApi ==
    \/ SeqApprove
    \/ SeqCancel
    \/ SeqBalanceCreate
    \/ SeqBalanceUpdate
    \/ SeqBalancePartialUpdate
    \/ SeqBalanceDestroy
    \/ StepSaveRequest
    \/ StepGetOrCreateBalance
    \/ StepCreateBalance
    \/ StepCountDays
    \/ StepSaveBalance
    \/ StepReturn

SpecBalanceApi == Init /\ [][NextBalanceApi]_vars

\* approve and cancel with edits of the start date in between, one call at a time
SeqPatchStartDate == Serial /\ \E w \in Workers, u \in Users, t \in Tenants, r \in ReqIds, sd \in 2..LastDate : PatchStartDate(w, u, t, r, sd) /\ UNCHANGED tvars

NextEdit ==
    \/ SeqApprove
    \/ SeqCancel
    \/ SeqPatchStartDate
    \/ StepSaveRequest
    \/ StepGetOrCreateBalance
    \/ StepCreateBalance
    \/ StepCountDays
    \/ StepSaveBalance
    \/ StepReturn

SpecEdit == Init /\ [][NextEdit]_vars

\* the leave request API that creates, reviews, cancels and deletes, one call
\* at a time, the holidays staying as they are
ApiUsers == {"u_manager", "u_employee", "u_outsider"}
LedgerPayloads ==
    { p \in RequestPayloads : /\ p.tenant = "t1" /\ p.employee = "e_employee"
                              /\ p.leave_type = "annual" /\ ~p.is_half_day }
ApiCreate == Serial /\ \E w \in Workers, u \in ApiUsers, t \in Tenants, p \in LedgerPayloads : CreateRequest(w, u, t, p) /\ UNCHANGED tvars
ApiApprove == Serial /\ \E w \in Workers, u \in ApiUsers, t \in Tenants, r \in ReqIds \cup NewReqIds, n \in Notes : Approve(w, u, t, r, n) /\ UNCHANGED tvars
ApiReject == Serial /\ \E w \in Workers, u \in ApiUsers, t \in Tenants, r \in ReqIds \cup NewReqIds, n \in Notes : Reject(w, u, t, r, n) /\ UNCHANGED tvars
ApiCancel == Serial /\ \E w \in Workers, u \in ApiUsers, t \in Tenants, r \in ReqIds \cup NewReqIds : Cancel(w, u, t, r) /\ UNCHANGED tvars
ApiDestroy == Serial /\ \E w \in Workers, u \in ApiUsers, t \in Tenants, r \in ReqIds \cup NewReqIds : Destroy(w, u, t, r) /\ UNCHANGED tvars

InitLedger ==
    /\ memberships = DirectoryTable
    /\ TenantSideIdle
    /\ requests = InitialRequests
    /\ balances \in InitialBalanceTables
    /\ holidays \in { {} } \cup { {h} : h \in HolidayRows }
    /\ pc = [w \in Workers |-> "idle"]
    /\ call = [w \in Workers |-> NoCall]
    /\ obj = [w \in Workers |-> NoRequest]
    /\ bal = [w \in Workers |-> NoBalance]
    /\ days = [w \in Workers |-> 0]
    /\ resp = [w \in Workers |-> 0]
    /\ ledger = NoLedger
    /\ started = 0

NextLedger ==
    \/ ApiCreate
    \/ ApiApprove
    \/ ApiReject
    \/ ApiCancel
    \/ ApiDestroy
    \/ StepSaveRequest
    \/ StepGetOrCreateBalance
    \/ StepCreateBalance
    \/ StepCountDays
    \/ StepSaveBalance
    \/ StepReturn

SpecLedger == InitLedger /\ [][NextLedger]_vars

\* every detail route of the leave request API, for every primary key clients
\* can send, one call at a time
IsoApprove == Serial /\ \E w \in Workers, u \in Users, t \in Tenants, r \in LookupIds, n \in Notes : Approve(w, u, t, r, n) /\ UNCHANGED tvars
IsoReject == Serial /\ \E w \in Workers, u \in Users, t \in Tenants, r \in LookupIds, n \in Notes : Reject(w, u, t, r, n) /\ UNCHANGED tvars
IsoCancel == Serial /\ \E w \in Workers, u \in Users, t \in Tenants, r \in LookupIds : Cancel(w, u, t, r) /\ UNCHANGED tvars
IsoRetrieve == Serial /\ \E w \in Workers, u \in Users, t \in Tenants, r \in LookupIds : Retrieve(w, u, t, r) /\ UNCHANGED tvars
IsoPartialUpdate == Serial /\ \E w \in Workers, u \in Users, t \in Tenants, r \in LookupIds, st \in StatusChoices : PartialUpdate(w, u, t, r, st) /\ UNCHANGED tvars
IsoDestroy == Serial /\ \E w \in Workers, u \in Users, t \in Tenants, r \in LookupIds : Destroy(w, u, t, r) /\ UNCHANGED tvars

NextIso ==
    \/ IsoApprove
    \/ IsoReject
    \/ IsoCancel
    \/ IsoRetrieve
    \/ IsoPartialUpdate
    \/ IsoDestroy
    \/ StepSaveRequest
    \/ StepGetOrCreateBalance
    \/ StepCreateBalance
    \/ StepCountDays
    \/ StepSaveBalance
    \/ StepReturn

SpecIso == Init /\ [][NextIso]_vars

\* ------------------------------------------------------- TenantMiddleware
\* request.path as its segments: <<"api", "v1", "auth", "login">> is
\* /api/v1/auth/login/
Paths ==
    { <<"admin">>,
      <<"api", "v1", "auth", "login">>,
      <<"api", "v1", "health">>,
      <<"api", "v1", "health", "db">>,
      <<"api", "schema">>,
      <<"api", "docs">>,
      <<"api", "v1", "employees">>,
      <<"api", "v1", "tenants", "current">> }

\* X-Tenant-ID values: none, the three tenants, a pk no tenant has, no number
HeaderValues == {"", "1", "2", "3", "9", "abc"}

\* Host header as its tokens
Hosts ==
    { <<"example", ".", "com">>,
      <<"acme", ".", "example", ".", "com">>,
      <<"beta", ".", "example", ".", "com", ":", "8000">>,
      <<"old", ".", "example", ".", "com">>,
      <<"www", ".", "example", ".", "com">>,
      <<"localhost", ":", "8000">> }

\* str.startswith on paths
StartsWith(path, prefix) ==
    /\ Len(prefix) <= Len(path)
    /\ SubSeq(path, 1, Len(prefix)) = prefix

\* str.split(sep): the pieces between the separators
RECURSIVE Split(_, _)
Split(seq, sep) ==
    IF \A i \in 1..Len(seq) : seq[i] # sep
    THEN << seq >>
    ELSE LET i == CHOOSE k \in 1..Len(seq) :
                      seq[k] = sep /\ \A j \in 1..(k - 1) : seq[j] # sep
         IN  << SubSeq(seq, 1, i - 1) >> \o Split(SubSeq(seq, i + 1, Len(seq)), sep)

\* int(value) of the pk lookup: the number; ValueError on any other text
Numerals == {"1", "2", "3", "9"}
IntOf(text) ==
    CASE text = "1" -> 1
      [] text = "2" -> 2
      [] text = "3" -> 3
      [] text = "9" -> 9

\* Tenant.objects.get(pk=tenant_id, is_active=True): the row's id, or the
\* exception raised
GetTenantByPk(text) ==
    IF text \notin Numerals THEN "ValueError"
    ELSE LET found == { t \in TenantRows : t.pk = IntOf(text) /\ t.is_active }
         IN  IF found = {} THEN "DoesNotExist" ELSE (CHOOSE t \in found : TRUE).id

\* Tenant.objects.get(slug=subdomain, is_active=True)
GetTenantBySlug(subdomain) ==
    LET found == { t \in TenantRows : << t.slug >> = subdomain /\ t.is_active }
    IN  IF found = {} THEN "DoesNotExist" ELSE (CHOOSE t \in found : TRUE).id

Exceptions == {"ValueError", "DoesNotExist"}

\* step 2 of _resolve_tenant
ResolveSubdomain(host) ==
    LET parts == Split(Split(host, ":")[1], ".")
    IN  IF Len(parts) > 2 /\ GetTenantBySlug(parts[1]) \notin Exceptions
        THEN GetTenantBySlug(parts[1])
        ELSE NULL

\* TenantMiddleware._resolve_tenant
ResolveTenantSubdomainFirst(header, host) ==
    IF ResolveSubdomain(host) # NULL THEN ResolveSubdomain(host)
    ELSE IF header # "" /\ GetTenantByPk(header) \notin Exceptions
    THEN GetTenantByPk(header)
    ELSE NULL
ResolveTenant(header, host) ==
    IF header # "" /\ GetTenantByPk(header) \notin Exceptions
    THEN GetTenantByPk(header)
    ELSE ResolveSubdomain(host)

\* QuerySet.first() under Meta.ordering = ["-is_default", "tenant__name"]
First(rows) ==
    IF rows = {} THEN NoRow
    ELSE CHOOSE m \in rows :
            \A n \in rows :
                \/ m.is_default /\ ~n.is_default
                \/ /\ m.is_default = n.is_default
                   /\ TenantById(m.tenant).name <= TenantById(n.tenant).name

\* TenantMiddleware._get_user_default_tenant
GetUserDefaultTenantActiveOnly(table, u) ==
    LET active == First({ m \in table : m.user = u /\ TenantById(m.tenant).is_active })
    IN  IF active # NoRow THEN active.tenant ELSE NULL
GetUserDefaultTenant(table, u) ==
    LET default == First({ m \in table : m.user = u /\ m.is_default })
        active  == First({ m \in table : m.user = u /\ TenantById(m.tenant).is_active })
    IN  IF default # NoRow THEN default.tenant
        ELSE IF active # NoRow THEN active.tenant
        ELSE NULL

\* the two early returns of TenantMiddleware.__call__
Bypassed(path) ==
    \/ ~StartsWith(path, <<"api">>)
    \/ StartsWith(path, <<"api", "v1", "auth">>)
    \/ path \in {<<"api", "v1", "health">>, <<"api", "schema">>, <<"api", "docs">>}

\* request.tenant after TenantMiddleware.__call__; mw_user is request.user as
\* the middleware sees it: "absent" without the attribute, "anonymous" when
\* not authenticated at that point
AttachedTenant(rq, table) ==
    IF Bypassed(rq.path) THEN NULL
    ELSE IF ResolveTenant(rq.header, rq.host) # NULL
    THEN ResolveTenant(rq.header, rq.host)
    ELSE IF rq.mw_user \notin {"absent", "anonymous"}
    THEN GetUserDefaultTenant(table, rq.mw_user)
    ELSE NULL

\* requests clients send: the view authenticates user (token or session);
\* the middleware sees that user only with session authentication
HttpRequests ==
    { [path |-> p, header |-> h, host |-> o, user |-> u, mw_user |-> m] :
        p \in Paths, h \in HeaderValues, o \in Hosts,
        u \in AccountUsers \cup {"anonymous"},
        m \in AccountUsers \cup {"anonymous", "absent"} }

\* TenantMiddleware.__call__ up to get_response(request)
Middleware(rq) ==
    /\ http = NoHttp
    /\ rq.mw_user \in {rq.user, "anonymous", "absent"}
    /\ http' = rq
    /\ request_tenant' = AttachedTenant(rq, memberships)
    /\ served' = NoServed
    /\ UNCHANGED <<memberships, mpc, self_row, last_default>>

\* IsTenantMember.has_permission
HasPermission(u, t, table) ==
    /\ u # "anonymous"
    /\ t # NULL
    /\ \E m \in table : m.user = u /\ m.tenant = t

\* a view under permission_classes = [IsTenantMember] answering with rows of
\* request.tenant (EmployeeViewSet.list)
ServeTenantData ==
    /\ http # NoHttp /\ served = NoServed
    /\ http.path = <<"api", "v1", "employees">>
    /\ IF HasPermission(http.user, request_tenant, memberships)
       THEN served' = [code |-> 200, tenant |-> request_tenant]
       ELSE \E code \in {401, 403} : served' = [code |-> code, tenant |-> NULL]
    /\ UNCHANGED <<memberships, http, request_tenant, mpc, self_row, last_default>>

\* TenantViewSet.current under IsAuthenticated
ServeCurrent ==
    /\ http # NoHttp /\ served = NoServed
    /\ http.path = <<"api", "v1", "tenants", "current">>
    /\ IF http.user = "anonymous"
       THEN \E code \in {401, 403} : served' = [code |-> code, tenant |-> NULL]
       ELSE IF request_tenant = NULL
       THEN served' = [code |-> 404, tenant |-> NULL]
       ELSE served' = [code |-> 200, tenant |-> request_tenant]
    /\ UNCHANGED <<memberships, http, request_tenant, mpc, self_row, last_default>>

\* the other routes: no tenant data in the response
ServeOther ==
    /\ http # NoHttp /\ served = NoServed
    /\ http.path \notin {<<"api", "v1", "employees">>, <<"api", "v1", "tenants", "current">>}
    /\ served' = [code |-> 200, tenant |-> NULL]
    /\ UNCHANGED <<memberships, http, request_tenant, mpc, self_row, last_default>>

\* the response is sent
Finish ==
    /\ served # NoServed
    /\ http' = NoHttp
    /\ request_tenant' = NULL
    /\ served' = NoServed
    /\ UNCHANGED <<memberships, mpc, self_row, last_default>>

InitResolve ==
    /\ \E table \in MembershipTables : memberships = table \cup OutsiderRows
    /\ TenantSideIdle
    /\ requests = InitialRequests
    /\ balances = {}
    /\ holidays = {}
    /\ pc = [w \in Workers |-> "idle"]
    /\ call = [w \in Workers |-> NoCall]
    /\ obj = [w \in Workers |-> NoRequest]
    /\ bal = [w \in Workers |-> NoBalance]
    /\ days = [w \in Workers |-> 0]
    /\ resp = [w \in Workers |-> 0]
    /\ ledger = NoLedger
    /\ started = 0

Resolve == \E rq \in HttpRequests : Middleware(rq) /\ UNCHANGED lvars
ViewTenantData == ServeTenantData /\ UNCHANGED lvars
ViewCurrent == ServeCurrent /\ UNCHANGED lvars
ViewOther == ServeOther /\ UNCHANGED lvars
SendResponse == Finish /\ UNCHANGED lvars

NextResolve ==
    \/ Resolve
    \/ ViewTenantData
    \/ ViewCurrent
    \/ ViewOther
    \/ SendResponse

\* every request against every membership table
SpecResolve == InitResolve /\ [][NextResolve]_vars

\* ------------------------------------------------ TenantMembership.save()
\* instances save() is called on: a new or an existing membership of
\* u_manager in any tenant, or u_outsider's membership
SaveInputs ==
    { MembershipRow("u_manager", t, d) : t \in TenantIds, d \in BOOLEAN }
    \cup { MembershipRow("u_outsider", "t2", d) : d \in BOOLEAN }

\* TenantMembership.objects.filter(user=self.user, is_default=True)
\*     .exclude(pk=self.pk).update(is_default=False)
ClearedNothing(table, self) == table
Cleared(table, self) ==
    { IF m.user = self.user /\ m.is_default /\ Pk(m) # Pk(self)
      THEN [m EXCEPT !.is_default = FALSE] ELSE m : m \in table }

\* save() is entered: the test of self.is_default
BeginSave(w, self) ==
    /\ mpc[w] = "idle"
    /\ self_row' = [self_row EXCEPT ![w] = self]
    /\ mpc' = [mpc EXCEPT ![w] = IF self.is_default THEN "clear_others" ELSE "super_save"]
    /\ UNCHANGED <<memberships, http, request_tenant, served, last_default>>

\* the UPDATE that clears the user's other defaults
ClearOthers(w) ==
    /\ mpc[w] = "clear_others"
    /\ memberships' = Cleared(memberships, self_row[w])
    /\ mpc' = [mpc EXCEPT ![w] = "super_save"]
    /\ UNCHANGED <<http, request_tenant, served, self_row, last_default>>

\* super().save(): INSERT or UPDATE of the row itself
SuperSave(w) ==
    /\ mpc[w] = "super_save"
    /\ memberships' = { m \in memberships : Pk(m) # Pk(self_row[w]) } \cup { self_row[w] }
    /\ last_default' = IF self_row[w].is_default
                        THEN [last_default EXCEPT ![self_row[w].user] = Pk(self_row[w])]
                        ELSE last_default
    /\ mpc' = [mpc EXCEPT ![w] = "idle"]
    /\ self_row' = [self_row EXCEPT ![w] = NoRow]
    /\ UNCHANGED <<http, request_tenant, served>>

InitMember ==
    /\ memberships = OutsiderRows
    /\ TenantSideIdle
    /\ requests = InitialRequests
    /\ balances = {}
    /\ holidays = {}
    /\ pc = [w \in Workers |-> "idle"]
    /\ call = [w \in Workers |-> NoCall]
    /\ obj = [w \in Workers |-> NoRequest]
    /\ bal = [w \in Workers |-> NoBalance]
    /\ days = [w \in Workers |-> 0]
    /\ resp = [w \in Workers |-> 0]
    /\ ledger = NoLedger
    /\ started = 0

SaveAlone ==
    /\ \A w \in Workers : mpc[w] = "idle"
    /\ \E w \in Workers, self \in SaveInputs : BeginSave(w, self)
    /\ UNCHANGED lvars
SaveOverlapping == (\E w \in Workers, self \in SaveInputs : BeginSave(w, self)) /\ UNCHANGED lvars
StepClearOthers == (\E w \in Workers : ClearOthers(w)) /\ UNCHANGED lvars
StepSuperSave == (\E w \in Workers : SuperSave(w)) /\ UNCHANGED lvars

\* saves one at a time
NextMember ==
    \/ SaveAlone
    \/ StepClearOthers
    \/ StepSuperSave

SpecMember == InitMember /\ [][NextMember]_vars

\* saves in several workers, statement by statement
NextMemberRace ==
    \/ SaveOverlapping
    \/ StepClearOthers
    \/ StepSuperSave

SpecMemberRace == InitMember /\ [][NextMemberRace]_vars

\* ------------------------------------------------ reading days_requested
\* LeaveRequest rows of an employee with a department country, of one without,
\* and of one of the other tenant; PATCH can store any pair of dates and the
\* half-day flag on any of them
DayRequests ==
    { [tenant |-> e.tenant, employee |-> e.id, leave_type |-> "annual",
       start_date |-> s, end_date |-> e2, is_half_day |-> hd, status |-> "pending",
       reviewed_by |-> NULL, reviewed_at |-> NULL, review_notes |-> ""] :
      e \in { x \in Employees : x.id \in {"e_manager", "e_viewer", "e_outsider"} },
      s \in 1..LastDate, e2 \in 1..LastDate, hd \in BOOLEAN }

DayHolidayRows ==
    { [tenant |-> t, date |-> d, country |-> c, name |-> "h"] :
      t \in Tenants, d \in 1..LastDate, c \in {"", "FR", "US"} }

InitDays ==
    /\ memberships = DirectoryTable
    /\ TenantSideIdle
    /\ requests = InitialRequests
    /\ balances = {}
    /\ holidays \in { hs \in SUBSET DayHolidayRows : Cardinality(hs) <= MaxHolidayRows }
    /\ pc = [w \in Workers |-> "idle"]
    /\ call = [w \in Workers |-> NoCall]
    /\ \E rq \in DayRequests : obj = [w \in Workers |-> rq]
    /\ bal = [w \in Workers |-> NoBalance]
    /\ days = [w \in Workers |-> 0]
    /\ resp = [w \in Workers |-> 0]
    /\ ledger = NoLedger
    /\ started = 0

\* the serializer reads the days_requested property of the instance
ReadDaysRequested(w) ==
    /\ pc[w] = "idle"
    /\ days' = [days EXCEPT ![w] = DaysRequested(obj[w], holidays)]
    /\ pc' = [pc EXCEPT ![w] = "counted"]
    /\ UNCHANGED <<requests, balances, holidays, call, obj, bal, resp, ledger, started>>

StepReadDaysRequested == (\E w \in Workers : ReadDaysRequested(w)) /\ UNCHANGED tvars

NextDays == StepReadDaysRequested

SpecDays == InitDays /\ [][NextDays]_vars

\* --------------------------------------------------------- TimeEntryViewSet
\* open tells that end_time is null: the employee is clocked in
TimeEntryRow(id, t, e, ty, open) ==
    [id |-> id, tenant |-> t, employee |-> e, entry_type |-> ty, open |-> open,
     is_approved |-> FALSE, approved_by |-> NULL, approved_at |-> NULL]

\* the time entries stored before the calls: one of each tenant
StoredEntries ==
    { TimeEntryRow(1, "t1", "e_employee", "regular", FALSE),
      TimeEntryRow(2, "t2", "e_outsider", "shift", FALSE) }

NextEntryId ==
    IF entries = {} THEN 1
    ELSE 1 + (CHOOSE i \in { e.id : e \in entries } : \A e \in entries : e.id <= i)

\* bodies of POST and PUT on /time-entries/: employee and entry_type are
\* fields of the serializer, a tenant is sent too
EntryPayloads ==
    { [tenant |-> t, employee |-> e, type |-> ty] :
      t \in Tenants, e \in {"e_employee", "e_outsider"}, ty \in { x.id : x \in EntryTypes } }

\* TimeEntrySerializer.validate_employee and validate_entry_type
ValidEntry(payload, t) ==
    /\ TenantOf(Employees, payload.employee) = t
    /\ TenantOf(EntryTypes, payload.type) = t

\* permission_classes, then get_object() on get_queryset()
EntryDetailCheck(u, t, id) ==
    CASE ~IsTenantMember(u, t)                                  -> 403
      [] ~\E e \in entries : e.tenant = t /\ e.id = id          -> 404
      [] OTHER                                                  -> 200

EntryCall(w, op, u, t) ==
    /\ pc[w] = "idle"
    /\ started' = started + 1
    /\ call' = [call EXCEPT ![w] = [op |-> op, user |-> u, tenant |-> t, id |-> NULL, notes |-> ""]]
    /\ UNCHANGED <<requests, balances, holidays, obj, bal, days, ledger>>

\* POST /time-entries/: perform_create saves with tenant=request.tenant
TimeEntryCreate(w, u, t, payload) ==
    /\ EntryCall(w, "entry_create", u, t)
    /\ Cardinality(entries) < MaxEntries
    /\ body' = payload
    /\ CASE ~IsTenantMember(u, t) ->
              Respond(w, 403) /\ UNCHANGED entries
         [] IsTenantMember(u, t) /\ ~ValidEntry(payload, t) ->
              Respond(w, 400) /\ UNCHANGED entries
         [] OTHER ->
              /\ entries' = entries \cup
                    { TimeEntryRow(NextEntryId, StampTenant(payload, t), payload.employee, payload.type, FALSE) }
              /\ Respond(w, 201)

\* PUT /time-entries/<pk>/: the tenant is no field of the serializer
TimeEntryUpdate(w, u, t, id, payload) ==
    /\ EntryCall(w, "entry_update", u, t)
    /\ body' = payload
    /\ CASE EntryDetailCheck(u, t, id) # 200 ->
              Respond(w, EntryDetailCheck(u, t, id)) /\ UNCHANGED entries
         [] EntryDetailCheck(u, t, id) = 200 /\ ~ValidEntry(payload, t) ->
              Respond(w, 400) /\ UNCHANGED entries
         [] OTHER ->
              /\ entries' = { IF e.id = id
                               THEN [e EXCEPT !.employee = payload.employee, !.entry_type = payload.type]
                               ELSE e : e \in entries }
              /\ Respond(w, 200)

\* POST /time-entries/clock_in/: entry_type of the body, "" when absent
ClockIn(w, u, t, ty) ==
    /\ EntryCall(w, "clock_in", u, t)
    /\ Cardinality(entries) < MaxEntries
    /\ body' = [tenant |-> NULL, employee |-> NULL, type |-> ty]
    /\ LET employee == GetCurrentEmployee(u, t)
           own == (CHOOSE x \in EntryTypes : x.tenant = t).id
       IN  CASE ~IsTenantMember(u, t) ->
                  Respond(w, 403) /\ UNCHANGED entries
             [] IsTenantMember(u, t) /\ employee = NULL ->
                  Respond(w, 404) /\ UNCHANGED entries
             [] IsTenantMember(u, t) /\ employee # NULL
                /\ (\/ \E e \in entries : e.tenant = t /\ e.employee = employee /\ e.open
                    \/ ty # "" /\ TenantOf(EntryTypes, ty) # t) ->
                  Respond(w, 400) /\ UNCHANGED entries
             [] OTHER ->
                  /\ entries' = entries \cup
                        { TimeEntryRow(NextEntryId, t, employee, IF ty = "" THEN own ELSE ty, TRUE) }
                  /\ Respond(w, 201)

\* TimeEntryViewSet.approve: POST /time-entries/<pk>/approve/
TimeEntryApprove(w, u, t, id) ==
    /\ EntryCall(w, "entry_approve", u, t)
    /\ UNCHANGED body
    /\ CASE EntryDetailCheck(u, t, id) # 200 ->
              Respond(w, EntryDetailCheck(u, t, id)) /\ UNCHANGED entries
         [] EntryDetailCheck(u, t, id) = 200 /\ GetCurrentEmployee(u, t) = NULL ->
              Respond(w, 404) /\ UNCHANGED entries
         [] OTHER ->
              /\ entries' = { IF e.id = id
                               THEN [e EXCEPT !.is_approved = TRUE,
                                              !.approved_by = GetCurrentEmployee(u, t),
                                              !.approved_at = "now"]
                               ELSE e : e \in entries }
              /\ Respond(w, 200)

\* ------------------------------------------- records created through the API
\* bodies that name rows of the caller's tenant and of the other one
RecordPayloads ==
    { p \in RequestPayloads : p.start_date = 2 /\ p.end_date = 2 /\ ~p.is_half_day }
CrossBalancePayloads ==
    { [employee |-> e, leave_type |-> lt, year |-> 2025, entitled_days |-> 40, used_days |-> 0] :
      e \in {"e_employee", "e_outsider"}, lt \in { x.id : x \in LeaveTypes } }

\* one member with an employee profile of each tenant
RecordUsers == {"u_employee", "u_outsider"}

othersIdle == <<tenantSide, svars>>

RecCreateRequest ==
    /\ Serial
    /\ \E w \in Workers, u \in RecordUsers, t \in Tenants, p \in RecordPayloads :
          /\ CreateRequest(w, u, t, p)
          /\ body' = [tenant |-> p.tenant, employee |-> p.employee, type |-> p.leave_type]
    /\ UNCHANGED <<othersIdle, entries>>
RecCreateBalance ==
    /\ Serial
    /\ \E w \in Workers, u \in RecordUsers, t \in Tenants, p \in CrossBalancePayloads :
          /\ BalanceCreate(w, u, t, p)
          /\ body' = [tenant |-> NULL, employee |-> p.employee, type |-> p.leave_type]
    /\ UNCHANGED <<othersIdle, entries>>
RecCreateEntry == Serial /\ \E w \in Workers, u \in RecordUsers, t \in Tenants, p \in EntryPayloads : TimeEntryCreate(w, u, t, p) /\ UNCHANGED othersIdle
RecUpdateEntry == Serial /\ \E w \in Workers, u \in RecordUsers, t \in Tenants, id \in 1..MaxEntries, p \in EntryPayloads : TimeEntryUpdate(w, u, t, id, p) /\ UNCHANGED othersIdle
RecClockIn == Serial /\ \E w \in Workers, u \in RecordUsers, t \in Tenants, ty \in {""} \cup { x.id : x \in EntryTypes } : ClockIn(w, u, t, ty) /\ UNCHANGED othersIdle
RecApproveEntry == Serial /\ \E w \in Workers, u \in RecordUsers, t \in Tenants, id \in 1..MaxEntries : TimeEntryApprove(w, u, t, id) /\ UNCHANGED othersIdle
RecReturn == (\E w \in Workers : Return(w)) /\ UNCHANGED <<othersIdle, xvars>>

InitRecords ==
    /\ memberships = DirectoryTable
    /\ http = NoHttp
    /\ request_tenant = NULL
    /\ served = NoServed
    /\ mpc = [w \in Workers |-> "idle"]
    /\ self_row = [w \in Workers |-> NoRow]
    /\ last_default = [u \in AccountUsers |-> NoPk]
    /\ feed = NoFeed
    /\ sync_resp = NoSync
    /\ entries = StoredEntries
    /\ body = NoBody
    /\ requests = InitialRequests
    /\ balances \in InitialBalanceTables
    /\ holidays = {}
    /\ pc = [w \in Workers |-> "idle"]
    /\ call = [w \in Workers |-> NoCall]
    /\ obj = [w \in Workers |-> NoRequest]
    /\ bal = [w \in Workers |-> NoBalance]
    /\ days = [w \in Workers |-> 0]
    /\ resp = [w \in Workers |-> 0]
    /\ ledger = NoLedger
    /\ started = 0

NextRecords ==
    \/ RecCreateRequest
    \/ RecCreateBalance
    \/ RecCreateEntry
    \/ RecUpdateEntry
    \/ RecClockIn
    \/ RecApproveEntry
    \/ RecReturn

SpecRecords == InitRecords /\ [][NextRecords]_vars

\* ------------------------------------------------------ HolidaySyncService
\* date.today().year and the year after it, the default years of a sync
DefaultYears == <<2024, 2025>>

\* what the API can answer for a year: an error, or holidays dated in the year
FeedEntries(y) == { [date |-> d, name |-> "h"] : d \in { x \in 1..LastDate : Year(x) = y } }
FeedStates(y) ==
    { [up |-> FALSE, entries |-> {}] }
    \cup { [up |-> TRUE, entries |-> es] : es \in SUBSET FeedEntries(y) }
Feeds ==
    { f \in [SyncKeys -> UNION { FeedStates(y) : y \in {2024, 2025} }] :
        \A k \in SyncKeys : f[k] \in FeedStates(k[2]) }

\* Holiday rows with their source; the stored tables a sync starts from:
\* nothing, a holiday entered by hand, holidays of an earlier sync
SourcedHoliday(t, c, d, n, src) ==
    [tenant |-> t, date |-> d, country |-> c, name |-> n, source |-> src]
HolidayKey(h) == <<h.tenant, h.country, h.date, h.name>>
StoredHolidayTables ==
    { {},
      { SourcedHoliday("t1", "FR", 1, "h", "manual") },
      { SourcedHoliday("t1", "FR", 1, "h", "nager_date"),
        SourcedHoliday("t1", "FR", 3, "h", "nager_date"),
        SourcedHoliday("t1", "US", 2, "h", "nager_date") } }

\* HolidaySyncService.get_tenant_countries
GetTenantCountries(t) == { e.country : e \in { x \in Employees : x.tenant = t } } \ {""}

\* Holiday.objects.update_or_create(tenant, country, date, name, defaults=...)
UpdateOrCreateAlwaysInsert(table, row) == [table |-> table \cup {row}, created |-> TRUE]
UpdateOrCreate(table, row) ==
    LET hit == { h \in table : HolidayKey(h) = HolidayKey(row) }
    IN  IF hit # {}
        THEN [table |-> (table \ hit) \cup {row}, created |-> FALSE]
        ELSE [table |-> table \cup {row}, created |-> TRUE]

\* the loop of sync_country over holidays_data
RECURSIVE UpsertAll(_, _)
UpsertAll(table, rows) ==
    IF rows = {} THEN [table |-> table, created |-> 0, updated |-> 0]
    ELSE LET r == CHOOSE x \in rows : TRUE
             one == UpdateOrCreate(table, r)
             rest == UpsertAll(one.table, rows \ {r})
         IN  [table |-> rest.table,
              created |-> rest.created + (IF one.created THEN 1 ELSE 0),
              updated |-> rest.updated + (IF one.created THEN 0 ELSE 1)]

\* HolidaySyncService.sync_country: fetch_holidays raises before any write
SyncCountry(table, fd, t, y, c) ==
    IF ~fd[<<c, y>>].up
    THEN [ok |-> FALSE, table |-> table, created |-> 0, updated |-> 0]
    ELSE LET r == UpsertAll(table, { SourcedHoliday(t, c, e.date, e.name, "nager_date") :
                                     e \in fd[<<c, y>>].entries })
         IN  [ok |-> TRUE, table |-> r.table, created |-> r.created, updated |-> r.updated]

\* sync_country for each (country, year) in turn, each in its own transaction;
\* skip tells whether RequestException is caught and the loop goes on
\* (sync_all_countries) or is left to the caller (the loop of the view)
RECURSIVE SyncEach(_, _, _, _, _)
SyncEach(table, fd, t, pairs, skip) ==
    IF pairs = <<>>
    THEN [table |-> table, created |-> 0, updated |-> 0, failed |-> {}, raised |-> FALSE]
    ELSE LET k == Head(pairs)
             one == SyncCountry(table, fd, t, k[2], k[1])
         IN  IF ~one.ok /\ ~skip
             THEN [table |-> table, created |-> 0, updated |-> 0, failed |-> {k}, raised |-> TRUE]
             ELSE LET rest == SyncEach(one.table, fd, t, Tail(pairs), skip)
                  IN  [table |-> rest.table,
                       created |-> one.created + rest.created,
                       updated |-> one.updated + rest.updated,
                       failed |-> (IF one.ok THEN {} ELSE {k}) \cup rest.failed,
                       raised |-> rest.raised]

RECURSIVE SeqOf(_)
SeqOf(set) ==
    IF set = {} THEN <<>>
    ELSE LET x == CHOOSE e \in set : TRUE IN <<x>> \o SeqOf(set \ {x})

\* the (country, year) pairs a sync call works through: country and year of
\* the query string, "" and 0 when absent
SyncPairs(t, country, year) ==
    LET years == IF year # 0 THEN <<year>> ELSE DefaultYears
    IN  IF country # ""
        THEN [i \in DOMAIN years |-> <<country, years[i]>>]
        ELSE SeqOf({ <<c, years[i]>> : c \in GetTenantCountries(t), i \in DOMAIN years })

\* HolidayViewSet.sync: POST /leave/holidays/sync/
Sync(u, t, country, year) ==
    /\ started < MaxSyncCalls
    /\ started' = started + 1
    /\ IF MembershipRole(u, t) \notin {"owner", "admin"}
       THEN /\ sync_resp' = [NoSync EXCEPT !.entry = "refused", !.tenant = t, !.code = 403]
            /\ UNCHANGED holidays
       ELSE LET r == SyncEach(holidays, feed, t, SyncPairs(t, country, year), country = "")
            IN  /\ holidays' = r.table
                /\ sync_resp' =
                      [entry |-> IF country = "" THEN "all"
                                 ELSE IF year = 0 THEN "country" ELSE "country_year",
                       tenant |-> t, country |-> country, year |-> year,
                       code |-> IF r.raised THEN 502 ELSE 200,
                       created |-> IF r.raised THEN 0 ELSE r.created,
                       updated |-> IF r.raised THEN 0 ELSE r.updated,
                       failed |-> r.failed]
    /\ UNCHANGED <<requests, balances, pc, call, obj, bal, days, resp, ledger, feed, tenantSide, xvars>>

\* the API goes down, comes back, or publishes other holidays
FeedChanges ==
    /\ started < MaxSyncCalls
    /\ started' = started + 1
    /\ \E k \in SyncKeys : \E f \in FeedStates(k[2]) :
          /\ f # feed[k]
          /\ feed' = [feed EXCEPT ![k] = f]
    /\ sync_resp' = NoSync
    /\ UNCHANGED <<requests, balances, holidays, pc, call, obj, bal, days, resp, ledger, tenantSide, xvars>>

InitSync ==
    /\ feed \in Feeds
    /\ sync_resp = NoSync
    /\ entries = {}
    /\ body = NoBody
    /\ holidays \in StoredHolidayTables
    /\ memberships = DirectoryTable
    /\ http = NoHttp
    /\ request_tenant = NULL
    /\ served = NoServed
    /\ mpc = [w \in Workers |-> "idle"]
    /\ self_row = [w \in Workers |-> NoRow]
    /\ last_default = [u \in AccountUsers |-> NoPk]
    /\ requests = InitialRequests
    /\ balances = {}
    /\ pc = [w \in Workers |-> "idle"]
    /\ call = [w \in Workers |-> NoCall]
    /\ obj = [w \in Workers |-> NoRequest]
    /\ bal = [w \in Workers |-> NoBalance]
    /\ days = [w \in Workers |-> 0]
    /\ resp = [w \in Workers |-> 0]
    /\ ledger = NoLedger
    /\ started = 0

SyncCall ==
    \E u \in {"u_owner", "u_manager"}, t \in Tenants, c \in {"", "FR", "US"}, y \in {0, 2024, 2025} :
        Sync(u, t, c, y)

NextSync ==
    \/ SyncCall
    \/ FeedChanges

SpecSync == InitSync /\ [][NextSync]_vars

\* ================================================================= claims
\* reference notions used by the statements below
ApprovalRoles == {"owner", "admin", "manager"}
ActiveProfiles(u, t) ==
    { e.id : e \in { x \in Employees : x.tenant = t /\ x.user = u /\ x.status = "active" } }
\* worker w receives a call in this step
Receives(w) == pc[w] = "idle" /\ pc'[w] # "idle"
\* worker w answers the call it receives in this step with code, writing nothing
Refused(w, code) ==
    /\ pc'[w] = "done"
    /\ resp'[w] = code
    /\ requests' = requests
    /\ balances' = balances
Quiescent == \A w \in Workers : pc[w] \in {"idle", "done"}
InitialRows == UNION InitialBalanceTables
InitialUsed(b) ==
    LET same == { i \in InitialRows : i.id = b.id /\ i.entitled_days = b.entitled_days }
    IN  IF same = {} THEN 0 ELSE (CHOOSE i \in same : TRUE).used_days

LegalTransition(a, b) ==
    \/ a = b
    \/ <<a, b>> \in { <<"pending", "approved">>, <<"pending", "rejected">>,
                      <<"pending", "cancelled">>, <<"approved", "cancelled">> }

\* C1: whatever approve, reject and cancel calls are made, a request's status
\* moves only pending->approved, pending->rejected, pending->cancelled or
\* approved->cancelled; rejected and cancelled are final.
C1_StatusTransitions ==
    [][\A r \in ReqIds : LegalTransition(requests[r].status, requests'[r].status)]_vars

\* C2: of the approve calls for one request at most one succeeds, so its
\* days are added to used_days at most once (ledger.added counts the
\* approvals that wrote the balance and answered 200).
C2_AtMostOneApproveSucceeds ==
    \A r \in ReqIds : ledger[r].added <= 1

\* C3: an approve that answers 200 leaves status=approved, reviewed_by = the
\* caller's employee profile and reviewed_at set, and its write of the balance
\* increases used_days of the row keyed by (tenant, employee, leave_type,
\* start_date.year) by the days_requested the handler computed from the
\* Holiday rows of that moment; get_or_create adds at most that row, with
\* used_days = 0, and no other row changes.
C3_ApproveEffect ==
    [][\A w \in Workers :
        /\ (call[w].op = "approve" /\ pc[w] \in {"get_balance", "create_balance"}
                                   /\ pc'[w] \in {"create_balance", "count_days"})
            => LET req == requests[call[w].id]
               IN  /\ balances \subseteq balances'
                   /\ \A b \in balances' \ balances :
                        /\ b.used_days = 0 /\ b.entitled_days = 0
                        /\ b.tenant = req.tenant /\ b.employee = req.employee
                        /\ b.leave_type = req.leave_type /\ b.year = Year(req.start_date)
                        /\ \A o \in balances : RowKey(o) # RowKey(b)
        /\ (call[w].op = "approve" /\ pc[w] = "count_days" /\ pc'[w] = "save_balance")
            => days'[w] = DaysRequested(requests[call[w].id], holidays)
        /\ (call[w].op = "approve" /\ pc[w] = "save_balance" /\ pc'[w] = "done" /\ resp'[w] = 200)
            => LET req == requests'[call[w].id]
               IN  /\ req.status = "approved"
                   /\ req.reviewed_by \in ActiveProfiles(call[w].user, call[w].tenant)
                   /\ req.reviewed_at # NULL
                   /\ \E b \in balances :
                        /\ b.tenant = req.tenant /\ b.employee = req.employee
                        /\ b.leave_type = req.leave_type /\ b.year = Year(req.start_date)
                        /\ balances' = (balances \ {b}) \cup
                              {[b EXCEPT !.used_days = b.used_days + days[w]]}
      ]_vars

\* C4: a request approved once and then cancelled has had subtracted what
\* was added: the net adjustment written for it is zero, whatever happened to
\* the Holiday rows in between.
C4_CancelRestoresBalance ==
    \A r \in ReqIds :
        ( /\ requests[r].status = "cancelled"
          /\ ledger[r].added = 1 /\ ledger[r].reversed = 1 )
        => ledger[r].net = 0

\* C5 in its unrestricted form: approve or reject by any caller holding an approval role, on
\* a request that is not pending, answers 400 and writes nothing.
C5_AnyApproverGets400 ==
    [][\A w \in Workers :
        ( /\ Receives(w)
          /\ call'[w].op \in {"approve", "reject"}
          /\ MembershipRole(call'[w].user, call'[w].tenant) \in ApprovalRoles
          /\ requests[call'[w].id].tenant = call'[w].tenant
          /\ requests[call'[w].id].status \in {"approved", "rejected", "cancelled"} )
        => Refused(w, 400)
      ]_vars

\* C5 amended: approve or reject on a request that is not pending writes
\* nothing for every caller holding an approval role; the answer is 400 when
\* the caller has an active employee profile in the tenant and 404 otherwise.
C5_NonPendingRefused ==
    [][\A w \in Workers :
        ( /\ Receives(w)
          /\ call'[w].op \in {"approve", "reject"}
          /\ MembershipRole(call'[w].user, call'[w].tenant) \in ApprovalRoles
          /\ requests[call'[w].id].tenant = call'[w].tenant
          /\ requests[call'[w].id].status \in {"approved", "rejected", "cancelled"} )
        => IF ActiveProfiles(call'[w].user, call'[w].tenant) # {}
           THEN Refused(w, 400)
           ELSE Refused(w, 404)
      ]_vars

\* a reviewer with a profile was answered 400 on a cancelled request
C5_Witness ==
    \E w \in Workers :
        /\ pc[w] = "done" /\ call[w].op \in {"approve", "reject"} /\ resp[w] = 400
        /\ ActiveProfiles(call[w].user, call[w].tenant) # {}
        /\ requests[call[w].id].status = "cancelled"

\* C6: approve, reject and pending_approval answer 403 and write nothing for
\* every caller whose role in the tenant is not owner, admin or manager.
C6_NonApproverForbidden ==
    [][\A w \in Workers :
        ( /\ Receives(w)
          /\ call'[w].op \in {"approve", "reject", "pending_approval"}
          /\ MembershipRole(call'[w].user, call'[w].tenant) \notin ApprovalRoles )
        => Refused(w, 403)
      ]_vars

\* a viewer was refused the approval of a pending request of the tenant
C6_Witness ==
    \E w \in Workers :
        /\ pc[w] = "done" /\ call[w].op = "approve" /\ resp[w] = 403
        /\ MembershipRole(call[w].user, call[w].tenant) = "viewer"
        /\ requests[call[w].id].tenant = call[w].tenant
        /\ requests[call[w].id].status = "pending"

C8_CancelFinalRefused ==
    [][/\ \A w \in Workers :
            ( /\ Receives(w)
              /\ call'[w].op = "cancel"
              /\ requests[call'[w].id].tenant = call'[w].tenant
              /\ requests[call'[w].id].employee \in ActiveProfiles(call'[w].user, call'[w].tenant)
              /\ requests[call'[w].id].status \in {"rejected", "cancelled"} )
            => Refused(w, 400)
       /\ \A r \in ReqIds : ledger'[r].reversed <= 1
      ]_vars

\* C9: when each of the two requests has been approved once and neither
\* cancelled, and no handler is running, the shared balance row holds its
\* initial used_days plus the days both approvals added.
C9_NoLostUpdate ==
    ( /\ Quiescent
      /\ \A r \in ReqIds : ledger[r].added = 1 /\ ledger[r].reversed = 0 )
    => \A b \in balances :
          RowKey(b) = Key2024
          => b.used_days = InitialUsed(b) + ledger["r1"].net + ledger["r2"].net

\* C10: when no handler is running, a request is approved exactly when the
\* balance holds an adjustment for it that was not reversed.
C10_AllOrNothing ==
    Quiescent
    => \A r \in ReqIds :
          (requests[r].status = "approved") <=> (ledger[r].added > ledger[r].reversed)

\* the answer the same call gets for a primary key that no row has
AnswerForMissing(op, u, t) ==
    CASE op \in {"approve", "reject"} -> ReviewCheck(u, t, "r0")
      [] op = "cancel"                 -> CancelCheck(u, t, "r0")
      [] OTHER                         -> DetailCheck(u, t, "r0")

IdOps == {"retrieve", "partial_update", "destroy", "approve", "reject", "cancel"}

\* worker w receives an id-based call for a row of another tenant than the one
\* the call is made under, from a member of that tenant
CrossTenantCall(w) ==
    /\ Receives(w)
    /\ call'[w].op \in IdOps
    /\ call'[w].id \in DOMAIN requests
    /\ requests[call'[w].id].tenant # call'[w].tenant
    /\ MembershipRole(call'[w].user, call'[w].tenant) # "none"

C12_DataOnlyForMembers ==
    served.tenant # NULL
    => /\ http.user # "anonymous"
       /\ \E m \in memberships : m.user = http.user /\ m.tenant = served.tenant

\* C13: the tenant the middleware attaches to a request is none or an active
\* tenant.
C13_AttachedTenantActive ==
    request_tenant # NULL => TenantById(request_tenant).is_active

\* reference reading of a request: the host's labels with the port dropped,
\* the active tenant the header names, the active tenant the host names
HostLabels(host) ==
    LET colon == { i \in 1..Len(host) : host[i] = ":" }
        upto  == IF colon = {} THEN Len(host)
                 ELSE (CHOOSE i \in colon : \A j \in colon : i <= j) - 1
    IN  SelectSeq(SubSeq(host, 1, upto), LAMBDA x : x # ".")
HeaderTenants(header) ==
    { t.id : t \in { x \in TenantRows :
                        /\ x.is_active
                        /\ \/ header = "1" /\ x.pk = 1
                           \/ header = "2" /\ x.pk = 2
                           \/ header = "3" /\ x.pk = 3 } }
HostTenants(host) ==
    { t.id : t \in { x \in TenantRows :
                        /\ x.is_active
                        /\ Len(HostLabels(host)) > 2
                        /\ x.slug = HostLabels(host)[1] } }
\* the middleware has run its resolution on the request it holds
Resolved ==
    /\ http # NoHttp
    /\ StartsWith(http.path, <<"api">>)
    /\ ~StartsWith(http.path, <<"api", "v1", "auth">>)
    /\ \A p \in {<<"api", "v1", "health">>, <<"api", "schema">>, <<"api", "docs">>} :
            ~StartsWith(http.path, p)
MembershipTenants(u) == { m.tenant : m \in { x \in memberships : x.user = u } }

C15_BypassPrefixes ==
    ( /\ http # NoHttp
      /\ \/ ~StartsWith(http.path, <<"api">>)
         \/ \E p \in {<<"api", "v1", "health">>, <<"api", "schema">>,
                       <<"api", "docs">>, <<"api", "v1", "auth">>} : StartsWith(http.path, p) )
    => request_tenant = NULL

\* C16: when header and host resolve nothing, the middleware attaches the
\* tenant of the user's default membership; without a default, the tenant of
\* the first membership (by tenant name) whose tenant is active; and none for
\* an absent or anonymous identity or a user without such a membership.
C16_MembershipFallback ==
    ( Resolved /\ HeaderTenants(http.header) = {} /\ HostTenants(http.host) = {} )
    => LET u        == http.mw_user
           defaults == { m \in memberships : m.user = u /\ m.is_default }
           actives  == { m \in memberships : m.user = u /\ TenantById(m.tenant).is_active }
       IN  IF u \in {"absent", "anonymous"} THEN request_tenant = NULL
           ELSE IF defaults # {}
           THEN \E m \in defaults : request_tenant = m.tenant
           ELSE IF actives # {}
           THEN \E m \in actives :
                   /\ request_tenant = m.tenant
                   /\ \A n \in actives : TenantById(m.tenant).name <= TenantById(n.tenant).name
           ELSE request_tenant = NULL

\* the fallback gave the default membership's tenant although another
\* membership comes first by tenant name; or, without a default, the first
\* active one although an inactive tenant's membership exists
C16_Witness ==
    /\ Resolved /\ HeaderTenants(http.header) = {} /\ HostTenants(http.host) = {}
    /\ http.mw_user = "u_manager"
    /\ request_tenant = "t1"
    /\ \E m \in memberships : m.user = "u_manager" /\ m.tenant = "t1" /\ m.is_default
    /\ \E m \in memberships : m.user = "u_manager" /\ m.tenant = "t2" /\ ~m.is_default

\* C17: with saves made one at a time, every user has at most one membership
\* with is_default, a membership that holds the flag is the one last saved
\* with is_default = true, and a save with is_default = true leaves its row as
\* the user's only default.
C17_SingleDefault ==
    /\ [](\A u \in AccountUsers :
            /\ Cardinality(DefaultsOf(memberships, u)) <= 1
            /\ \A m \in DefaultsOf(memberships, u) : Pk(m) = last_default[u])
    /\ [][\A w \in Workers :
            (mpc[w] = "super_save" /\ mpc'[w] = "idle" /\ self_row[w].is_default)
            => DefaultsOf(memberships', self_row[w].user) = { self_row[w] }]_vars

\* the default moved from one membership of the user to another one, the
\* other user's default staying
C17_Witness ==
    /\ \A w \in Workers : mpc[w] = "idle"
    /\ MembershipRow("u_manager", "t1", FALSE) \in memberships
    /\ MembershipRow("u_manager", "t2", TRUE) \in memberships
    /\ last_default["u_manager"] = <<"u_manager", "t2">>
    /\ MembershipRow("u_outsider", "t2", TRUE) \in memberships

\* C18: in no state, intermediate or final, do two memberships of one user
\* both have is_default.
C18_NeverTwoDefaults ==
    \A u \in AccountUsers : Cardinality(DefaultsOf(memberships, u)) <= 1

\* the value C19 states, in half days: a holiday row applies to a request when
\* it is of the request's tenant, dated within the request, and either
\* company-wide or of the country of the employee's department
Applicable(h, req) ==
    /\ h.tenant = req.tenant
    /\ req.start_date <= h.date /\ h.date <= req.end_date
    /\ \/ h.country = ""
       \/ EmployeeCountry(req.employee) # "" /\ h.country = EmployeeCountry(req.employee)

RECURSIVE CountApplicable(_, _)
CountApplicable(rows, req) ==
    IF rows = {} THEN 0
    ELSE LET h == CHOOSE x \in rows : TRUE
         IN  (IF Applicable(h, req) THEN 1 ELSE 0) + CountApplicable(rows \ {h}, req)

ReferenceDays(req, hols) ==
    IF req.is_half_day
    THEN IF \E h \in hols : Applicable(h, req) /\ h.date = req.start_date THEN 0 ELSE 1
    ELSE LET n == 2 * (req.end_date - req.start_date + 1) - 2 * CountApplicable(hols, req)
         IN  IF n < 0 THEN 0 ELSE n

\* C19: days_requested of every request equals the reference value (0 or a
\* half day for a half-day request, the calendar days less the applicable
\* holidays floored at zero otherwise) and is never negative.
C19_DaysRequestedIsReference ==
    \A w \in Workers :
        pc[w] = "counted" => /\ days[w] = ReferenceDays(obj[w], holidays)
                             /\ days[w] >= 0

\* a two-day request of an employee whose department has a country, with a
\* national holiday of that country and one of another country in its range:
\* one day is deducted
C19_Witness ==
    \E w \in Workers :
        /\ pc[w] = "counted"
        /\ ~obj[w].is_half_day
        /\ obj[w].employee = "e_manager"
        /\ obj[w].end_date = obj[w].start_date + 1
        /\ \E h1, h2 \in holidays :
              /\ h1.tenant = "t1" /\ h1.country = "FR" /\ h1.date = obj[w].start_date
              /\ h2.tenant = "t1" /\ h2.country = "US" /\ h2.date = obj[w].end_date
        /\ days[w] = 2

\* C20: there is at most one LeaveBalance row per (tenant, employee,
\* leave_type, year) in every state, approvals that get-or-create the same
\* missing balance at the same time included, and a row the workflow creates
\* has entitled_days = 0 and used_days = 0.
C20_OneBalancePerKey ==
    /\ [](\A b1, b2 \in balances : RowKey(b1) = RowKey(b2) => b1 = b2)
    /\ [][\A b \in balances' :
            (\A o \in balances : o.id # b.id) => (b.entitled_days = 0 /\ b.used_days = 0)]_vars

\* one approval found no balance and is about to insert it while another
\* approval has inserted the row of that key in between
C20_Witness ==
    \E w1, w2 \in Workers :
        /\ w1 # w2
        /\ call[w1].op = "approve" /\ call[w2].op = "approve"
        /\ pc[w1] = "create_balance"
        /\ pc[w2] = "count_days"
        /\ bal[w2] \in balances
        /\ bal[w2].used_days = 0 /\ bal[w2].entitled_days = 0
        /\ RowKey(bal[w2]) = BalanceKey(obj[w1])

\* used_days recorded for a key: that of its row, 0 without a row
UsedOf(table, key) ==
    LET rows == { b \in table : RowKey(b) = key }
    IN  IF rows = {} THEN 0 ELSE (CHOOSE b \in rows : TRUE).used_days

\* C21: the used_days recorded for a (tenant, employee, leave_type, year)
\* changes only in the balance write of an approve or of a cancel; no call of
\* the LeaveBalance API changes it.
C21_UsedDaysOnlyByWorkflow ==
    [][\A key \in { RowKey(b) : b \in balances \cup balances' } :
        UsedOf(balances', key) # UsedOf(balances, key)
        => \E w \in Workers : /\ pc[w] = "save_balance"
                               /\ pc'[w] # "save_balance"
                               /\ call[w].op \in {"approve", "cancel"}]_vars

\* C22: a sync during which the fetch of some (country, year) fails answers
\* 502 on every entry point, the all-countries one included, and leaves the
\* stored Holiday rows of that (country, year) as they were.
C22_FetchFailureReported ==
    [][(sync_resp' # sync_resp /\ sync_resp'.failed # {})
        => /\ sync_resp'.code = 502
           /\ \A k \in sync_resp'.failed :
                { h \in holidays' : h.country = k[1] /\ Year(h.date) = k[2] }
                = { h \in holidays : h.country = k[1] /\ Year(h.date) = k[2] }]_vars

\* C23: sync_country run again for the same tenant, country and year against
\* the same feed leaves the Holiday rows as the first run left them and
\* reports created = 0, and no two rows share (tenant, country, date, name).
C23_SyncIdempotent ==
    /\ [](\A h1, h2 \in holidays : HolidayKey(h1) = HolidayKey(h2) => h1 = h2)
    /\ [][(/\ sync_resp.entry = "country_year" /\ sync_resp.code = 200
            /\ started' = started + 1
            /\ sync_resp'.entry = "country_year" /\ sync_resp'.code = 200
            /\ sync_resp'.tenant = sync_resp.tenant
            /\ sync_resp'.country = sync_resp.country
            /\ sync_resp'.year = sync_resp.year)
           => (holidays' = holidays /\ sync_resp'.created = 0)]_vars

\* a second run has just answered: the first one had created a row and
\* turned a holiday entered by hand into a synced one, the second updated both
C23_Witness ==
    /\ sync_resp.entry = "country_year" /\ sync_resp.code = 200
    /\ sync_resp.country = "FR" /\ sync_resp.year = 2024
    /\ sync_resp.created = 0 /\ sync_resp.updated = 2
    /\ SourcedHoliday("t1", "FR", 1, "h", "nager_date") \in holidays
    /\ SourcedHoliday("t1", "FR", 2, "h", "nager_date") \in holidays
    /\ started = 2

\* C30: for a full-day request every date of [start_date, end_date] takes at
\* most one day off days_requested: the result is at least the number of
\* dates of the range with no applicable holiday, also when several applicable
\* Holiday rows share a date.
C30_OneDayPerDate ==
    \A w \in Workers :
        (pc[w] = "counted" /\ ~obj[w].is_half_day)
        => days[w] >= 2 * Cardinality({ d \in obj[w].start_date..obj[w].end_date :
                                         ~\E h \in holidays : Applicable(h, obj[w]) /\ h.date = d })

\* C29: a client update (PUT or PATCH) of a leave request leaves its status,
\* reviewed_by, reviewed_at and review_notes as they were.
C29_UpdateKeepsWorkflowFields ==
    [][\A w \in Workers :
        (Receives(w) /\ call'[w].op = "partial_update")
        => \A r \in DOMAIN requests :
             /\ r \in DOMAIN requests'
             /\ requests'[r].status = requests[r].status
             /\ requests'[r].reviewed_by = requests[r].reviewed_by
             /\ requests'[r].reviewed_at = requests[r].reviewed_at
             /\ requests'[r].review_notes = requests[r].review_notes]_vars

\* C27: a cancel of an approved request writes the reversal of used_days
\* before it stores status = cancelled, and writes it to the LeaveBalance of
\* the key the approval of the request adjusted, also after the request was
\* edited.
C27_ReversalOnApprovalBalance ==
    [][\A w \in Workers :
        /\ (call[w].op = "cancel" /\ pc[w] = "save_balance" /\ pc'[w] = "save_request")
            => /\ RowKey(bal'[w]) = ledger[call[w].id].key
               /\ requests'[call[w].id].status = "approved"
        /\ (call[w].op = "cancel" /\ pc[w] = "save_request" /\ pc'[w] = "done"
             /\ requests[call[w].id].status = "approved")
            => ledger[call[w].id].reversed >= ledger[call[w].id].added]_vars

RECURSIVE SumApproved(_, _, _)
SumApproved(ids, key, hols) ==
    IF ids = {} THEN 0
    ELSE LET r == CHOOSE x \in ids : TRUE
         IN  (IF requests[r].status = "approved" /\ BalanceKey(requests[r]) = key
              THEN DaysRequested(requests[r], hols) ELSE 0)
             + SumApproved(ids \ {r}, key, hols)

\* C28: between calls, used_days of every balance equals its initial value
\* plus the days_requested of the requests of its key that are approved, and
\* every approved request has its balance.
C28_LedgerConservation ==
    (\A w \in Workers : pc[w] = "idle")
    => /\ \A b \in balances :
            b.used_days = InitialUsed(b) + SumApproved(DOMAIN requests, RowKey(b), holidays)
       /\ \A r \in DOMAIN requests :
            requests[r].status = "approved"
            => \E b \in balances : RowKey(b) = BalanceKey(requests[r])

\* rows by primary key, for the three tables the create calls write
RequestIds(table) == DOMAIN table
RowIds(table) == { x.id : x \in table }
RowOf(table, id) == CHOOSE x \in table : x.id = id

\* C24: a record created through the API belongs to the tenant resolved for
\* the creating request, whatever tenant the body names, and no call changes
\* the tenant of a stored record.
C24_TenantStamped ==
    [][/\ \A r \in RequestIds(requests') \ RequestIds(requests) :
            \E w \in Workers : Receives(w) /\ requests'[r].tenant = call'[w].tenant
       /\ \A id \in RowIds(entries') \ RowIds(entries) :
            \E w \in Workers : Receives(w) /\ RowOf(entries', id).tenant = call'[w].tenant
       /\ \A id \in RowIds(balances') \ RowIds(balances) :
            \E w \in Workers : Receives(w) /\ RowOf(balances', id).tenant = call'[w].tenant
       /\ \A r \in RequestIds(requests') \cap RequestIds(requests) :
            requests'[r].tenant = requests[r].tenant
       /\ \A id \in RowIds(entries') \cap RowIds(entries) :
            RowOf(entries', id).tenant = RowOf(entries, id).tenant
       /\ \A id \in RowIds(balances') \cap RowIds(balances) :
            RowOf(balances', id).tenant = RowOf(balances, id).tenant]_vars

\* a time entry and a leave request were created under t1 by calls whose
\* bodies named t2
C24_Witness ==
    /\ "r3" \in DOMAIN requests /\ requests["r3"].tenant = "t1"
    /\ \E e \in entries : e.id = 3 /\ e.tenant = "t1" /\ ~e.open
    /\ body.tenant = "t2"
    /\ \E w \in Workers : call[w].tenant = "t1" /\ resp[w] = 201

\* C25: a create call naming an employee or a type of another tenant than the
\* request's is answered 400 or 403 and stores nothing, and every TimeEntry,
\* LeaveRequest and LeaveBalance references employees and types of its tenant.
C25_NoCrossTenantReference ==
    /\ [](/\ \A r \in DOMAIN requests :
              /\ TenantOf(Employees, requests[r].employee) = requests[r].tenant
              /\ TenantOf(LeaveTypes, requests[r].leave_type) = requests[r].tenant
           /\ \A e \in entries :
              /\ TenantOf(Employees, e.employee) = e.tenant
              /\ TenantOf(EntryTypes, e.entry_type) = e.tenant
           /\ \A b \in balances :
              /\ TenantOf(Employees, b.employee) = b.tenant
              /\ TenantOf(LeaveTypes, b.leave_type) = b.tenant)
    /\ [][\A w \in Workers :
            (/\ Receives(w)
             /\ call'[w].op \in {"create", "balance_create", "entry_create"}
             /\ \/ TenantOf(Employees, body'.employee) # call'[w].tenant
                \/ TenantOf(LeaveTypes \cup EntryTypes, body'.type) # call'[w].tenant)
            => (Refused(w, 400) \/ Refused(w, 403)) /\ entries' = entries]_vars

\* C26: the approval of a time entry by a caller whose role in the tenant is
\* employee is answered 403 and leaves the entry as it was.
C26_EmployeeCannotApproveEntry ==
    [][\A w \in Workers :
        (/\ Receives(w)
         /\ call'[w].op = "entry_approve"
         /\ MembershipRole(call'[w].user, call'[w].tenant) = "employee")
        => (resp'[w] = 403 /\ entries' = entries)]_vars

====
